---- MODULE Spec2Model ----
(***************************************************************************)
(* Model of package pg (ggicci/pg): the OffsetPagination and               *)
(* SeekPagination value objects, the list options and the List             *)
(* orchestrator with its two round-trips to the execution engine.          *)
(***************************************************************************)
EXTENDS Integers, Sequences, FiniteSets, TLC

(* ------------------------------------------------------------------ *)
(* Bounds of the model                                                  *)
(* ------------------------------------------------------------------ *)

\* Largest value a caller writes into a field or passes to a setter.
MaxVal == 2

\* Longest option list passed to List.
MaxOpts == 3

\* Largest small total the count query reports (45 is reported as well).
MaxTotal == 3

\* Caller mutations of its pagination object after a paging option was built.
MaxMuts == 1

\* Values written by callers: one negative value, zero, and 1..MaxVal.
Vals == (0 - 1)..MaxVal

\* Program constants.
FallbackPerPage == 20
ListDefaultPerPage == 20
FallbackSeekLimit == 10

None == "none"

VARIABLES
    heap,       \* the OffsetPagination objects, by address; heap[1] is the caller's
    captured,   \* history: captured[a] is the value WithOffsetPagination was given
                \* when it built the option whose page is a
    ret,        \* the last operation applied to the caller's object and what it returned
    seek,       \* the SeekPagination object
    seekRet,    \* the last operation applied to the SeekPagination and what it returned
    opts,       \* the option list the caller has built so far
    muts,       \* number of caller mutations of heap[1] since the first paging option
    pc,         \* where the List call is: idle, count, data or done
    call,       \* the locals of the running List call; total is empty until the
                \* count row was scanned into it
    trips,      \* the round-trips issued to the execution engine, in order
    result      \* what List returned: (vs, pagination, err)

vars == <<heap, captured, ret, seek, seekRet, opts, muts, pc, call, trips, result>>

(* ------------------------------------------------------------------ *)
(* OffsetPagination                                                     *)
(* ------------------------------------------------------------------ *)

\* int64(math.Ceil(float64(a) / float64(b))) for a >= 0, b >= 1. The float64
\* conversion is exact for the operands of the model (all below 2^53).
\* The quotient rounded down instead.
FloorDiv(a, b) == a \div b

CeilDiv(a, b) == IF a % b = 0 THEN a \div b ELSE (a \div b) + 1

\* The zero value of the struct.
ZeroPagination ==
    [Page |-> 0, PerPage |-> 0, CountPages |-> 0, CountRecords |-> 0,
     defaultPerPage |-> 0]

\* normalize without the repair of Page.
normalizeKeepPage(p) ==
    LET d  == IF p.defaultPerPage <= 0 THEN FallbackPerPage ELSE p.defaultPerPage
        pp == IF p.PerPage <= 0 THEN d ELSE p.PerPage
        cr == IF p.CountRecords <= 0 THEN 0 ELSE p.CountRecords
    IN  [Page |-> p.Page, PerPage |-> pp, CountPages |-> CeilDiv(cr, pp),
         CountRecords |-> cr, defaultPerPage |-> d]

normalize(p) ==
    LET d  == IF p.defaultPerPage <= 0 THEN FallbackPerPage ELSE p.defaultPerPage
        pg == IF p.Page <= 0 THEN 1 ELSE p.Page
        pp == IF p.PerPage <= 0 THEN d ELSE p.PerPage
        cr == IF p.CountRecords <= 0 THEN 0 ELSE p.CountRecords
    IN  [Page |-> pg, PerPage |-> pp, CountPages |-> CeilDiv(cr, pp),
         CountRecords |-> cr, defaultPerPage |-> d]

NewOffsetPagination(defaultPerPage) ==
    normalize([ZeroPagination EXCEPT !.defaultPerPage = defaultPerPage])

\* Each method is the pair of the object after the call and the value returned.
SetDefaultPerPage(p, defaultPerPage) ==
    LET q == normalize([p EXCEPT !.defaultPerPage = defaultPerPage])
    IN  [obj |-> q, val |-> q.defaultPerPage]

Limit(p) ==
    LET q == normalize(p) IN [obj |-> q, val |-> q.PerPage]

Offset(p) ==
    LET q == normalize(p) IN [obj |-> q, val |-> (q.Page - 1) * q.PerPage]

CurrentPage(p) ==
    LET q == normalize(p) IN [obj |-> q, val |-> q.Page]

PageSize(p) ==
    LET q == normalize(p) IN [obj |-> q, val |-> q.PerPage]

SetCountRecords(p, total) ==
    [obj |-> normalize([p EXCEPT !.CountRecords = total]), val |-> None]

(* ------------------------------------------------------------------ *)
(* strconv.FormatInt(n, 10) and its inverse, on sequences of characters *)
(* ------------------------------------------------------------------ *)

DigitChar == <<"0", "1", "2", "3", "4", "5", "6", "7", "8", "9">>

RECURSIVE Digits(_)
Digits(n) ==
    IF n < 10 THEN <<DigitChar[n + 1]>>
    ELSE Digits(n \div 10) \o <<DigitChar[(n % 10) + 1]>>

FormatInt(n) == IF n < 0 THEN <<"-">> \o Digits(0 - n) ELSE Digits(n)

DigitValue(c) == CHOOSE d \in 0..9 : DigitChar[d + 1] = c

RECURSIVE ParseDigits(_)
ParseDigits(s) ==
    IF Len(s) = 0 THEN 0
    ELSE ParseDigits(SubSeq(s, 1, Len(s) - 1)) * 10 + DigitValue(s[Len(s)])

ParseInt(s) ==
    IF Len(s) > 0 /\ s[1] = "-" THEN 0 - ParseDigits(Tail(s)) ELSE ParseDigits(s)

(* ------------------------------------------------------------------ *)
(* OffsetPagination.LinkHeader                                          *)
(* ------------------------------------------------------------------ *)

\* url.Values.Set: the query parameters are a map from key to value.
QuerySet(q, k, v) ==
    [x \in (DOMAIN q) \cup {k} |-> IF x = k THEN v ELSE q[x]]

\* One entry `<path?query>; rel="..."` of the header.
LinkEntry(theURL, page, rel) ==
    [path |-> theURL.path,
     query |-> QuerySet(theURL.query, "page", FormatInt(page)),
     rel |-> rel]

\* The next entry given up to and including the last page.
LinkHeaderNextInclusive(p, theURL) ==
    <<LinkEntry(theURL, 1, "first")>>
    \o (IF p.Page > 1 THEN <<LinkEntry(theURL, p.Page - 1, "prev")>> ELSE <<>>)
    \o (IF p.Page + 1 <= p.CountPages
        THEN <<LinkEntry(theURL, p.Page + 1, "next")>> ELSE <<>>)
    \o <<LinkEntry(theURL, p.CountPages, "last")>>

\* The entries in the order in which strings.Join emits them.
LinkHeader(p, theURL) ==
    <<LinkEntry(theURL, 1, "first")>>
    \o (IF p.Page > 1 THEN <<LinkEntry(theURL, p.Page - 1, "prev")>> ELSE <<>>)
    \o (IF p.Page + 1 < p.CountPages
        THEN <<LinkEntry(theURL, p.Page + 1, "next")>> ELSE <<>>)
    \o <<LinkEntry(theURL, p.CountPages, "last")>>

\* Request URLs: without a query, and with a query that already has a page.
URLs ==
    { [path |-> "/users", query |-> [k \in {} |-> <<>>]],
      [path |-> "/users", query |-> [k \in {"page", "q"} |->
                                        IF k = "page" THEN <<"7">> ELSE <<"x">>]] }

(* ------------------------------------------------------------------ *)
(* SeekPagination                                                       *)
(* ------------------------------------------------------------------ *)

NewSeekPagination(defaultLimit) ==
    [limit |-> 0, cursor |-> "",
     defaultLimit |-> IF defaultLimit <= 0 THEN FallbackSeekLimit ELSE defaultLimit]

seekNormalize(s) ==
    IF s.limit <= 0 THEN [s EXCEPT !.limit = s.defaultLimit] ELSE s

SetLimit(s, newLimit) ==
    LET t == seekNormalize([s EXCEPT !.limit = newLimit])
    IN  [obj |-> t, val |-> t.limit]

SeekLimit(s) == [obj |-> s, val |-> s.limit]

SetCursor(s, newCursor) ==
    LET t == [s EXCEPT !.cursor = newCursor] IN [obj |-> t, val |-> t.cursor]

Cursor(s) == [obj |-> s, val |-> s.cursor]

Cursors == {"", "abc", "dXNlcjoxMCwz"}

(* ------------------------------------------------------------------ *)
(* List options                                                         *)
(* ------------------------------------------------------------------ *)

\* A sq.SelectBuilder: the clauses set on it so far.
BaseQuery ==
    [columns |-> <<"*">>, from |-> "users", wheres |-> <<>>, orderBys |-> <<>>,
     limit |-> <<>>, offset |-> <<>>]

\* uint64(x) of an int64 x, as wraps * 2^64 + plus.
Uint64(x) == [wraps |-> IF x < 0 THEN 1 ELSE 0, plus |-> x]

\* With(columnName, value...): the option, and what its Apply does.
With(columnName, n) == [kind |-> "with", col |-> columnName, values |-> n]

WithApply(o, sb) ==
    IF o.values = 0 THEN sb
    ELSE IF o.values = 1
    THEN [sb EXCEPT !.wheres = Append(@, [pred |-> "Eq", col |-> o.col, values |-> 1])]
    ELSE [sb EXCEPT !.wheres = Append(@, [pred |-> "Or", col |-> o.col,
                                          values |-> o.values])]

WithSortBy(columnName, direction) ==
    [kind |-> "sort", col |-> columnName, dir |-> direction]

SortByApply(o, sb) ==
    [sb EXCEPT !.orderBys = Append(@, [col |-> o.col, dir |-> o.dir])]

\* The option keeps the caller's pointer instead of a copy.
WithOffsetPaginationAlias(h, a) ==
    [heap |-> h, opt |-> [kind |-> "paging", page |-> a]]

\* WithOffsetPagination(pagination): allocates a copy of the object at address a.
WithOffsetPagination(h, a) ==
    [heap |-> Append(h, h[a]), opt |-> [kind |-> "paging", page |-> Len(h) + 1]]

\* Limit and Offset given each other's value.
PagingApplySwapped(o, sb, h) ==
    LET l   == Limit(h[o.page])
        off == Offset(l.obj)
    IN  [sb   |-> [sb EXCEPT !.limit = <<Uint64(off.val)>>, !.offset = <<Uint64(l.val)>>],
         heap |-> [h EXCEPT ![o.page] = off.obj]]

\* withOffsetPaginationOption.Apply: Limit() and Offset() normalize the object.
PagingApply(o, sb, h) ==
    LET l   == Limit(h[o.page])
        off == Offset(l.obj)
    IN  [sb   |-> [sb EXCEPT !.limit = <<Uint64(l.val)>>, !.offset = <<Uint64(off.val)>>],
         heap |-> [h EXCEPT ![o.page] = off.obj]]

IsPaginationOption(opt) == opt.kind = "paging"

IsSortingOption(opt) == opt.kind = "sort"

CategorizedListOptions(os) ==
    [filtering |-> SelectSeq(os, LAMBDA o : ~IsPaginationOption(o) /\ ~IsSortingOption(o)),
     paging    |-> SelectSeq(os, IsPaginationOption),
     sorting   |-> SelectSeq(os, IsSortingOption)]

\* ListOptionFunc.Apply: the option is the function With returned.
FilterApply(o, sb) == WithApply(o, sb)

RECURSIVE ApplyFilters(_, _)
ApplyFilters(os, sb) ==
    IF os = <<>> THEN sb ELSE ApplyFilters(Tail(os), FilterApply(Head(os), sb))

RECURSIVE ApplySorts(_, _)
ApplySorts(os, sb) ==
    IF os = <<>> THEN sb ELSE ApplySorts(Tail(os), SortByApply(Head(os), sb))

toCountQuery(query) == [query EXCEPT !.columns = <<"COUNT(*)">>]

(* ------------------------------------------------------------------ *)
(* Initial states                                                       *)
(* ------------------------------------------------------------------ *)

NoRet == [op |-> "none", arg |-> 0, val |-> 0, url |-> None, out |-> <<>>]

NoSeekRet == [op |-> "none", num |-> 0, str |-> ""]

NoCall ==
    [query |-> BaseQuery, pagination |-> 0, sorting |-> <<>>, paging |-> <<>>,
     total |-> <<>>]

NoResult == [vs |-> None, pagination |-> 0, err |-> None]

NoCaptured == [a \in {} |-> ZeroPagination]

InitRest ==
    /\ captured = NoCaptured
    /\ ret = NoRet
    /\ seekRet = NoSeekRet
    /\ opts = <<>>
    /\ muts = 0
    /\ pc = "idle"
    /\ call = NoCall
    /\ trips = <<>>
    /\ result = NoResult

\* The caller's object: built by NewOffsetPagination, or a zero struct that a
\* request decoder filled in.
PageInit ==
    /\ heap \in { <<NewOffsetPagination(d)>> : d \in Vals } \cup { <<ZeroPagination>> }
    /\ seek = NewSeekPagination(0)
    /\ InitRest

SeekInit ==
    /\ heap = <<NewOffsetPagination(0)>>
    /\ seek \in { NewSeekPagination(d) : d \in Vals }
    /\ InitRest

(* ------------------------------------------------------------------ *)
(* The caller's operations on its OffsetPagination, heap[1]             *)
(* ------------------------------------------------------------------ *)

ListVars == <<captured, opts, muts, pc, call, trips, result>>

PageFrame == <<seek, seekRet, ListVars>>

WriteField(f, v) ==
    /\ heap' = [heap EXCEPT ![1][f] = v]
    /\ ret' = [NoRet EXCEPT !.op = "write", !.arg = v]

WritePage == (\E v \in Vals : WriteField("Page", v)) /\ UNCHANGED PageFrame

WritePerPage == (\E v \in Vals : WriteField("PerPage", v)) /\ UNCHANGED PageFrame

WriteCountPages == (\E v \in Vals : WriteField("CountPages", v)) /\ UNCHANGED PageFrame

WriteCountRecords ==
    (\E v \in Vals : WriteField("CountRecords", v)) /\ UNCHANGED PageFrame

\* A method call: r is the pair (object after, value returned).
Called(op, arg, r) ==
    /\ heap' = [heap EXCEPT ![1] = r.obj]
    /\ ret' = [NoRet EXCEPT !.op = op, !.arg = arg, !.val = r.val]

CallSetDefaultPerPage ==
    /\ \E v \in Vals : Called("SetDefaultPerPage", v, SetDefaultPerPage(heap[1], v))
    /\ UNCHANGED PageFrame

CallSetCountRecords ==
    /\ \E v \in Vals :
        Called("SetCountRecords", v, [SetCountRecords(heap[1], v) EXCEPT !.val = 0])
    /\ UNCHANGED PageFrame

CallLimit == Called("Limit", 0, Limit(heap[1])) /\ UNCHANGED PageFrame

CallOffset == Called("Offset", 0, Offset(heap[1])) /\ UNCHANGED PageFrame

CallCurrentPage == Called("CurrentPage", 0, CurrentPage(heap[1])) /\ UNCHANGED PageFrame

CallPageSize == Called("PageSize", 0, PageSize(heap[1])) /\ UNCHANGED PageFrame

CallLinkHeader ==
    /\ \E u \in URLs :
        /\ heap' = heap
        /\ ret' = [NoRet EXCEPT !.op = "LinkHeader", !.url = u,
                                !.out = LinkHeader(heap[1], u)]
    /\ UNCHANGED PageFrame

PageNext ==
    \/ WritePage
    \/ WritePerPage
    \/ WriteCountPages
    \/ WriteCountRecords
    \/ CallSetDefaultPerPage
    \/ CallSetCountRecords
    \/ CallLimit
    \/ CallOffset
    \/ CallCurrentPage
    \/ CallPageSize
    \/ CallLinkHeader

PageSpec == PageInit /\ [][PageNext]_vars

(* ------------------------------------------------------------------ *)
(* The caller's operations on its SeekPagination                        *)
(* ------------------------------------------------------------------ *)

SeekFrame == <<heap, ret, ListVars>>

CallSetLimit ==
    /\ \E v \in Vals :
        LET r == SetLimit(seek, v)
        IN  /\ seek' = r.obj
            /\ seekRet' = [op |-> "SetLimit", num |-> r.val, str |-> ""]
    /\ UNCHANGED SeekFrame

CallSeekLimit ==
    /\  LET r == SeekLimit(seek)
        IN  /\ seek' = r.obj
            /\ seekRet' = [op |-> "Limit", num |-> r.val, str |-> ""]
    /\ UNCHANGED SeekFrame

CallSetCursor ==
    /\ \E c \in Cursors :
        LET r == SetCursor(seek, c)
        IN  /\ seek' = r.obj
            /\ seekRet' = [op |-> "SetCursor", num |-> 0, str |-> r.val]
    /\ UNCHANGED SeekFrame

CallCursor ==
    /\  LET r == Cursor(seek)
        IN  /\ seek' = r.obj
            /\ seekRet' = [op |-> "Cursor", num |-> 0, str |-> r.val]
    /\ UNCHANGED SeekFrame

SeekNext ==
    \/ CallSetLimit
    \/ CallSeekLimit
    \/ CallSetCursor
    \/ CallCursor

SeekSpec == SeekInit /\ [][SeekNext]_vars

(* ------------------------------------------------------------------ *)
(* List                                                                 *)
(* ------------------------------------------------------------------ *)

\* Totals the count query reports.
Totals == (0..MaxTotal) \cup {45}

\* The caller's object before it builds options: made by NewOffsetPagination,
\* then Page and PerPage set from the request.
Init ==
    /\ heap \in { <<[NewOffsetPagination(d) EXCEPT !.Page = a, !.PerPage = b]>> :
                    d \in {0, MaxVal}, a \in Vals, b \in Vals }
    /\ seek = NewSeekPagination(0)
    /\ InitRest

Capture(a, v) ==
    [x \in (DOMAIN captured) \cup {a} |-> IF x = a THEN v ELSE captured[x]]

Building == pc = "idle" /\ Len(opts) < MaxOpts

\* Options are told apart by the column they name: the position in the list.
AddWith ==
    /\ Building
    /\ \E n \in 0..2 : opts' = Append(opts, With(Len(opts) + 1, n))
    /\ UNCHANGED <<heap, captured, ret, seek, seekRet, muts, pc, call, trips, result>>

AddSortBy ==
    /\ Building
    /\ opts' = Append(opts, WithSortBy(Len(opts) + 1, "desc"))
    /\ UNCHANGED <<heap, captured, ret, seek, seekRet, muts, pc, call, trips, result>>

AddPaging ==
    /\ Building
    /\ LET w == WithOffsetPagination(heap, 1)
       IN  /\ heap' = w.heap
           /\ opts' = Append(opts, w.opt)
           /\ captured' = Capture(w.opt.page, heap[1])
    /\ UNCHANGED <<ret, seek, seekRet, muts, pc, call, trips, result>>

\* The caller changes its own object after it has built a paging option.
Mutating == muts < MaxMuts /\ \E i \in 1..Len(opts) : IsPaginationOption(opts[i])

MutFrame == <<captured, ret, seek, seekRet, opts, pc, call, trips, result>>

MutateField ==
    /\ Mutating
    /\ \E f \in {"Page", "PerPage", "CountRecords"}, v \in Vals :
        heap' = [heap EXCEPT ![1][f] = v]
    /\ muts' = muts + 1
    /\ UNCHANGED MutFrame

MutateSetDefaultPerPage ==
    /\ Mutating
    /\ \E v \in Vals : heap' = [heap EXCEPT ![1] = SetDefaultPerPage(@, v).obj]
    /\ muts' = muts + 1
    /\ UNCHANGED MutFrame

MutateSetCountRecords ==
    /\ Mutating
    /\ \E v \in Vals : heap' = [heap EXCEPT ![1] = SetCountRecords(@, v).obj]
    /\ muts' = muts + 1
    /\ UNCHANGED MutFrame

\* The paging option List makes when it was given none.
DefaultPaging(h) ==
    LET h1 == Append(h, NewOffsetPagination(ListDefaultPerPage))
    IN  WithOffsetPagination(h1, Len(h1))

\* Two paging options let through.
TooManyPagingOffByOne(pagingOpts) == Len(pagingOpts) > 2

\* More than one paging option is a configuration error.
TooManyPaging(pagingOpts) == Len(pagingOpts) > 1

\* Only the empty total short-circuits.
ShortCircuitEmptyOnly(p) == p.CountRecords = 0

\* Nothing to fetch: no records, or a page past the last.
ShortCircuit(p) == p.CountRecords = 0 \/ p.Page > p.CountPages

RECURSIVE ApplyPagings(_, _, _)
ApplyPagings(os, sb, h) ==
    IF os = <<>> THEN [sb |-> sb, heap |-> h]
    ELSE LET r == PagingApply(Head(os), sb, h)
         IN  ApplyPagings(Tail(os), r.sb, r.heap)

Return(vs, pagination, err) ==
    /\ result' = [vs |-> vs, pagination |-> pagination, err |-> err]
    /\ pc' = "done"

\* List, up to the count round-trip. ToSql of the count statement
\* fails or not, as the statement builder decides.
ListStart ==
    /\ pc = "idle"
    /\ \E asm \in {"ok", "err"} :
        LET cat  == CategorizedListOptions(opts)
            none == Len(cat.paging) = 0
            d    == DefaultPaging(heap)
            pagingOpts == IF none THEN <<d.opt>> ELSE cat.paging
        IN  /\ heap' = IF none THEN d.heap ELSE heap
            /\ captured' = IF none THEN Capture(d.opt.page, d.heap[d.opt.page])
                           ELSE captured
            /\ IF TooManyPaging(pagingOpts)
               THEN /\ Return("input", 0, "only one pagination option is allowed")
                    /\ UNCHANGED <<call, trips>>
               ELSE LET query == ApplyFilters(cat.filtering, BaseQuery)
                    IN  /\ call' = [query |-> query, pagination |-> pagingOpts[1].page,
                                    sorting |-> cat.sorting, paging |-> pagingOpts,
                                    total |-> <<>>]
                        /\ IF asm = "err"
                           THEN /\ Return("input", 0, "assemble count query")
                                /\ UNCHANGED trips
                           ELSE /\ trips' = Append(trips, [kind |-> "count",
                                                           stmt |-> toCountQuery(query)])
                                /\ pc' = "count"
                                /\ UNCHANGED result
    /\ UNCHANGED <<ret, seek, seekRet, opts, muts>>

\* A failed count round-trip is tried again.
CountFailsRetrying ==
    /\ pc = "count"
    /\ Len(trips) < 2
    /\ trips' = Append(trips, trips[1])
    /\ UNCHANGED <<heap, captured, ret, seek, seekRet, opts, muts, pc, call, result>>

\* The count round-trip fails (the context was cancelled, too).
CountFails ==
    /\ pc = "count"
    /\ Return("input", 0, "count records")
    /\ UNCHANGED <<heap, captured, ret, seek, seekRet, opts, muts, call, trips>>

\* The count round-trip answers, up to the data round-trip.
CountReply ==
    /\ pc = "count"
    /\ \E total \in Totals, asm \in {"ok", "err"} :
        LET a  == call.pagination
            h1 == [heap EXCEPT ![a] = SetCountRecords(@, total).obj]
        IN  IF ShortCircuit(h1[a])
            THEN /\ heap' = h1
                 /\ Return("input", a, "nil")
                 /\ call' = [call EXCEPT !.total = <<total>>]
                 /\ UNCHANGED trips
            ELSE LET r == ApplyPagings(call.paging,
                                       ApplySorts(call.sorting, call.query), h1)
                 IN  /\ heap' = r.heap
                     /\ call' = [call EXCEPT !.query = r.sb, !.total = <<total>>]
                     /\ IF asm = "err"
                        THEN /\ Return("input", 0, "assemble query")
                             /\ UNCHANGED trips
                        ELSE /\ trips' = Append(trips, [kind |-> "data", stmt |-> r.sb])
                             /\ pc' = "data"
                             /\ UNCHANGED result
    /\ UNCHANGED <<captured, ret, seek, seekRet, opts, muts>>

\* pgxscan.Select answers; on an error it may have filled part
\* of the destination.
DataReply ==
    /\ pc = "data"
    /\ \/ Return("rows", call.pagination, "nil")
       \/ \E vs \in {"input", "partial"} : Return(vs, call.pagination, "select")
    /\ UNCHANGED <<heap, captured, ret, seek, seekRet, opts, muts, call, trips>>

Next ==
    \/ AddWith
    \/ AddSortBy
    \/ AddPaging
    \/ ListStart
    \/ CountFails
    \/ CountReply
    \/ DataReply

Spec == Init /\ [][Next]_vars

\* List with a caller that keeps changing its pagination object after it has
\* built paging options from it, also while List runs.
SnapNext ==
    \/ AddPaging
    \/ MutateField
    \/ MutateSetDefaultPerPage
    \/ MutateSetCountRecords
    \/ ListStart
    \/ CountFails
    \/ CountReply
    \/ DataReply

SnapSpec == Init /\ [][SnapNext]_vars

(* ------------------------------------------------------------------ *)
(* Properties of the pagination objects                                 *)
(* ------------------------------------------------------------------ *)

NormalizingOps ==
    {"Limit", "Offset", "CurrentPage", "PageSize", "SetCountRecords", "SetDefaultPerPage"}

\* The object a after a normalizing call r on the object b.
Healed(b, a, r) ==
    LET d0 == IF r.op = "SetDefaultPerPage" THEN r.arg ELSE b.defaultPerPage
        d  == IF d0 <= 0 THEN 20 ELSE d0
        c0 == IF r.op = "SetCountRecords" THEN r.arg ELSE b.CountRecords
    IN  /\ a.Page >= 1 /\ a.PerPage >= 1 /\ a.CountRecords >= 0
        /\ a.Page = (IF b.Page <= 0 THEN 1 ELSE b.Page)
        /\ a.PerPage = (IF b.PerPage <= 0 THEN d ELSE b.PerPage)
        /\ a.CountRecords = (IF c0 <= 0 THEN 0 ELSE c0)
        /\ a.defaultPerPage = d
        \* CountPages is the ceiling of CountRecords / PerPage
        /\ a.CountPages * a.PerPage >= a.CountRecords
        /\ (a.CountPages - 1) * a.PerPage < a.CountRecords
        /\ (a.CountRecords = 0 => a.CountPages = 0)
        /\ (r.op = "Offset" => r.val = (CurrentPage(a).val - 1) * PageSize(a).val)
        /\ (r.op \in {"Limit", "PageSize"} => r.val = a.PerPage)
        /\ (r.op = "CurrentPage" => r.val = a.Page)

\* C5: OffsetPagination is self-healing. Whatever was written into the fields
\* before, every step that is a call of Limit, Offset, CurrentPage, PageSize,
\* SetCountRecords or SetDefaultPerPage leaves Page >= 1, PerPage >= 1 (a
\* PerPage <= 0 replaced by the default, a default <= 0 by 20), CountRecords >= 0
\* and CountPages = ceil(CountRecords / PerPage), and Offset returns
\* (CurrentPage() - 1) * PageSize().
C5_SelfHealing ==
    [][ret'.op \in NormalizingOps => Healed(heap[1], heap'[1], ret')]_vars

\* Offset() was called on a zero struct whose Page had been set to 2: PerPage
\* became the fallback default and the offset is one page of 20.
C5_Witness ==
    /\ ret.op = "Offset"
    /\ ret.val = FallbackPerPage
    /\ heap[1].Page = 2
    /\ heap[1].PerPage = FallbackPerPage

\* The page parameter of entry e, read back as a number.
PageOf(e) == ParseInt(e.query["page"])

C6_LimitPositive ==
    seekRet.op = "Limit" =>
        /\ seekRet.num > 0
        /\ seekRet.num = (IF seek.limit > 0 THEN seek.limit ELSE seek.defaultLimit)

(* ------------------------------------------------------------------ *)
(* Properties of List                                                   *)
(* ------------------------------------------------------------------ *)

ErrTooManyPaging == "only one pagination option is allowed"

\* Positions of the caller's option list that hold an option of the kind.
Positions(kind) == {i \in DOMAIN opts : opts[i].kind = kind}

\* Number of round-trips of the kind issued so far.
RoundTrips(kind) == Cardinality({i \in DOMAIN trips : trips[i].kind = kind})

\* The count round-trip answered with a total.
Counted == call.total # <<>>

\* C1: an option list with more than one paging option makes List return the
\* configuration error without any round-trip to the execution engine,
\* whatever filtering and sorting options come with them.
C1_TwoPagingOptions ==
    (pc # "idle" /\ Cardinality(Positions("paging")) > 1) =>
        /\ pc = "done"
        /\ result.err = ErrTooManyPaging
        /\ result.pagination = 0
        /\ RoundTrips("count") = 0
        /\ RoundTrips("data") = 0

\* List has returned for a filter and two paging options.
C1_Witness ==
    /\ pc = "done"
    /\ Cardinality(Positions("paging")) = 2
    /\ Cardinality(Positions("with")) = 1
    /\ result.err = ErrTooManyPaging

\* The requested page: Page of the pagination the paging option was built from.
RequestedPage == captured[call.pagination].Page

\* C2 as stated: once the count query has succeeded, if the total is zero or
\* the requested page exceeds the recomputed total-pages, List returns no
\* error, the metadata with the requested Page kept as is and CountPages and
\* CountRecords from the total, the destination as passed in, and issues no
\* data query; otherwise the data query is issued.
C2_ShortCircuitAsStated ==
    Counted =>
        LET p == heap[call.pagination]
            total == call.total[1]
        IN  IF total = 0 \/ RequestedPage > p.CountPages
            THEN /\ pc = "done"
                 /\ result = [vs |-> "input", pagination |-> call.pagination, err |-> "nil"]
                 /\ p.Page = RequestedPage
                 /\ p.CountRecords = total
                 /\ p.CountPages * p.PerPage >= total
                 /\ (p.CountPages - 1) * p.PerPage < total
                 /\ RoundTrips("data") = 0
            ELSE RoundTrips("data") = 1

\* C2 as the code has it: the returned Page is the requested page when that is
\* >= 1 and 1 otherwise; and when neither condition holds the data statement is
\* assembled, and the data query is issued unless that assembly fails, in which
\* case List returns the assembly error and no metadata.
C2_ShortCircuit ==
    Counted =>
        LET p == heap[call.pagination]
            total == call.total[1]
        IN  IF total = 0 \/ RequestedPage > p.CountPages
            THEN /\ pc = "done"
                 /\ result = [vs |-> "input", pagination |-> call.pagination, err |-> "nil"]
                 /\ p.Page = (IF RequestedPage >= 1 THEN RequestedPage ELSE 1)
                 /\ p.CountRecords = total
                 /\ p.CountPages * p.PerPage >= total
                 /\ (p.CountPages - 1) * p.PerPage < total
                 /\ RoundTrips("data") = 0
            ELSE \/ RoundTrips("data") = 1
                 \/ /\ pc = "done"
                    /\ result = [vs |-> "input", pagination |-> 0, err |-> "assemble query"]
                    /\ RoundTrips("data") = 0

\* Page 2 was requested of the single page of 2 records: List returned the
\* metadata without a data query.
C2_Witness ==
    /\ pc = "done"
    /\ Counted
    /\ call.total[1] = 2
    /\ RequestedPage = 2
    /\ heap[call.pagination].CountPages = 1
    /\ result.err = "nil"
    /\ RoundTrips("data") = 0

\* What C3 says of the data round-trip and of a failed count round-trip: at
\* most one data round-trip, issued after the one count round-trip answered and
\* SetCountRecords was applied; after a failed count round-trip no data
\* round-trip and no second count round-trip.
C3_DataAfterCount ==
    /\ RoundTrips("count") <= 1
    /\ RoundTrips("data") <= 1
    /\ RoundTrips("data") = 1 =>
        /\ Len(trips) = 2 /\ trips[1].kind = "count" /\ trips[2].kind = "data"
        /\ Counted
        /\ heap[call.pagination].CountRecords = call.total[1]
        /\ heap[call.pagination].CountPages * heap[call.pagination].PerPage
               >= call.total[1]
    /\ (pc = "done" /\ result.err = "count records") =>
        /\ Len(trips) = 1 /\ trips[1].kind = "count"
        /\ ~Counted

\* C3 as stated: every List call that passes option validation issues exactly
\* one count round-trip, and the rest as in C3_DataAfterCount.
C3_RoundTripsAsStated ==
    /\ (pc # "idle" /\ Cardinality(Positions("paging")) <= 1) => RoundTrips("count") = 1
    /\ C3_DataAfterCount

\* C3 as the code has it: a List call that passes option validation issues
\* exactly one count round-trip unless the count statement fails to assemble,
\* in which case it issues none; the rest as in C3_DataAfterCount.
C3_RoundTrips ==
    /\ (pc # "idle" /\ Cardinality(Positions("paging")) <= 1) =>
        IF pc = "done" /\ result.err = "assemble count query"
        THEN trips = <<>>
        ELSE RoundTrips("count") = 1
    /\ C3_DataAfterCount

\* The count round-trip of a call with a filter and a sort failed.
C3_Witness ==
    /\ pc = "done"
    /\ result.err = "count records"
    /\ Cardinality(Positions("with")) = 1
    /\ Cardinality(Positions("sort")) = 1
    /\ Len(trips) = 1

\* C8: List has no partial success: it ends with metadata and no error, or
\* with an error, no metadata and the destination as passed in.
C8_NoPartialSuccess ==
    pc = "done" =>
        \/ result.err = "nil" /\ result.pagination # 0 /\ result.vs \in {"rows", "input"}
        \/ result.err # "nil" /\ result.pagination = 0 /\ result.vs = "input"

\* The where terms of a statement are those of the With options that bind a
\* value, in the order of the option list.
FiltersCarried(stmt) ==
    LET w == stmt.wheres
    IN  /\ {w[j].col : j \in DOMAIN w} = {i \in Positions("with") : opts[i].values > 0}
        /\ \A j, k \in DOMAIN w : j < k => w[j].col < w[k].col
        /\ \A j \in DOMAIN w :
            /\ w[j].values = opts[w[j].col].values
            /\ w[j].pred = (IF w[j].values = 1 THEN "Eq" ELSE "Or")

\* The order-by terms of a statement are those of the sorting options, in the
\* order of the option list.
SortsCarried(stmt) ==
    LET o == stmt.orderBys
    IN  /\ {o[j].col : j \in DOMAIN o} = Positions("sort")
        /\ \A j, k \in DOMAIN o : j < k => o[j].col < o[k].col
        /\ \A j \in DOMAIN o : o[j].dir = opts[o[j].col].dir

\* C9: however the caller interleaves filtering, sorting and paging options,
\* the count statement carries the filters in their order and no sorting or
\* paging term, and the data statement is the same filtered statement with the
\* sorts in their order and LIMIT PerPage OFFSET (Page - 1) * PerPage of the
\* pagination metadata.
C9_Ordering ==
    \A i \in DOMAIN trips :
        LET stmt == trips[i].stmt
            p    == heap[call.pagination]
        IN  /\ stmt.from = BaseQuery.from
            /\ FiltersCarried(stmt)
            /\ trips[i].kind = "count" =>
                /\ stmt.columns = <<"COUNT(*)">>
                /\ stmt.orderBys = <<>>
                /\ stmt.limit = <<>>
                /\ stmt.offset = <<>>
            /\ trips[i].kind = "data" =>
                /\ stmt.columns = BaseQuery.columns
                /\ stmt.wheres = trips[1].stmt.wheres
                /\ SortsCarried(stmt)
                /\ stmt.limit = <<[wraps |-> 0, plus |-> p.PerPage]>>
                /\ stmt.offset = <<[wraps |-> 0, plus |-> (p.Page - 1) * p.PerPage]>>

\* Sort, filter, paging in this order, 45 records and page 1 of 20 per page:
\* three pages, LIMIT 20 OFFSET 0.
C9_Witness ==
    /\ pc = "done"
    /\ result.err = "nil"
    /\ result.vs = "rows"
    /\ Len(opts) = 3
    /\ opts[1].kind = "sort" /\ opts[2].kind = "with" /\ opts[3].kind = "paging"
    /\ opts[2].values = 2
    /\ call.total = <<45>>
    /\ heap[result.pagination].CountPages = 3
    /\ trips[2].stmt.limit = <<[wraps |-> 0, plus |-> 20]>>
    /\ trips[2].stmt.offset = <<[wraps |-> 0, plus |-> 0]>>

\* C10: when List issues the data query the page is in range and not empty:
\* 1 <= Page <= CountPages, LIMIT = PerPage >= 1 and
\* 0 <= OFFSET = (Page - 1) * PerPage < CountRecords, and no negative value was
\* converted to the unsigned LIMIT or OFFSET.
C10_PageInRange ==
    \A i \in DOMAIN trips :
        trips[i].kind = "data" =>
            LET stmt == trips[i].stmt
                p    == heap[call.pagination]
                lim  == stmt.limit[1]
                off  == stmt.offset[1]
            IN  /\ 1 <= p.Page /\ p.Page <= p.CountPages
                /\ Len(stmt.limit) = 1 /\ Len(stmt.offset) = 1
                /\ lim.wraps = 0 /\ off.wraps = 0
                /\ lim.plus = p.PerPage /\ lim.plus >= 1
                /\ off.plus = (p.Page - 1) * p.PerPage
                /\ 0 <= off.plus /\ off.plus < p.CountRecords

\* The data query went out for a pagination captured with Page and PerPage
\* both non-positive.
C10_Witness ==
    /\ pc = "data"
    /\ captured[call.pagination].Page < 0
    /\ captured[call.pagination].PerPage = 0
    /\ RoundTrips("data") = 1

\* C4: WithOffsetPagination snapshots its argument. However the caller changes
\* its object after it built the option, the LIMIT and OFFSET the option
\* applies, and the page List evaluates, are those of the values the object
\* had when the option was built.
C4_Snapshot ==
    /\ \A i \in Positions("paging") :
        LET now  == heap[opts[i].page]
            then == captured[opts[i].page]
        IN  /\ Limit(now).val = Limit(then).val
            /\ Offset(now).val = Offset(then).val
    /\ \A i \in DOMAIN trips :
        trips[i].kind = "data" =>
            LET then == captured[call.pagination]
            IN  /\ trips[i].stmt.limit = <<Uint64(Limit(then).val)>>
                /\ trips[i].stmt.offset = <<Uint64(Offset(then).val)>>
    /\ (pc = "done" /\ result.pagination # 0) =>
        heap[result.pagination].Page = CurrentPage(captured[result.pagination]).val

\* The data query went out although the caller had changed Page or PerPage of
\* its object after building the option.
C4_Witness ==
    /\ pc = "data"
    /\ Cardinality(Positions("paging")) = 1
    /\ muts > 0
    /\ \/ CurrentPage(heap[1]).val # CurrentPage(captured[call.pagination]).val
       \/ PageSize(heap[1]).val # PageSize(captured[call.pagination]).val

====
